---- MODULE Spec2Model ----
(***************************************************************************)
(* Model of the DOM helpers of z-wf-starter:                               *)
(*   getHtmlElement / getMultipleHtmlElements  (get-html-element)          *)
(*   getActiveScript                           (get-active-script)         *)
(*   setStyle, both variants                   (src/utils/set-style.ts)    *)
(*                                                                         *)
(* The host primitives the helpers call (querySelector, querySelectorAll,  *)
(* CSSStyleDeclaration.getPropertyValue / setProperty / property           *)
(* assignment, Object.assign, console.debug / console.error) are modelled  *)
(* by what they do on a small document.                                    *)
(***************************************************************************)
EXTENDS Integers, Sequences, FiniteSets, TLC

----------------------------------------------------------------------------
(* Bounds *)

\* number of element nodes of the document
NumNodes == 2

\* most keys in one StyleMap
MaxKeys == 2

\* most setStyle calls in one run (each leaves a revert closure behind)
MaxPatches == 1

\* most setStyle calls in one run of stacked patches
MaxStack == 2

----------------------------------------------------------------------------
(* The document *)

\* the absent attribute, the absent log argument, the absent parent argument
NoAttr == "<none>"
Undefined == "undefined"
NoParent == -1

\* import.meta.url of the module that holds getActiveScript
ModuleUrl == "u1"

\* a second URL, of which ModuleUrl is a proper prefix
OtherUrl == "u1?v=2"

\* the kinds of element a document of the model is built from
NodeKinds ==
    { [tag |-> "div",    cls |-> "x", src |-> NoAttr],
      [tag |-> "span",   cls |-> "x", src |-> NoAttr],
      [tag |-> "span",   cls |-> "y", src |-> ModuleUrl],
      [tag |-> "script", cls |-> "y", src |-> ModuleUrl],
      [tag |-> "script", cls |-> "y", src |-> OtherUrl] }

NodeIds == 1 .. NumNodes

\* the document node (the scope when no parent is given) is 0
Document == 0

VARIABLES
    dom,        \* the element nodes in document order: tag, cls, src, parent
    call,       \* the arguments of the most recent finder call
    result,     \* what that call returned
    console,    \* the console calls that call made, in order
    style,      \* style[e][p]: the inline declaration of property p on e
    expando,    \* expando[e]: own JS property "--x" of e's style object
    handles,    \* the revert closures created so far, in creation order
    last        \* the most recent style operation

findVars == <<dom, call, result, console>>
styleVars == <<style, expando, handles, last>>
vars == <<dom, call, result, console, style, expando, handles, last>>

\* i is a descendant of root (every node is a descendant of the document)
RECURSIVE IsDescendant(_, _, _)
IsDescendant(d, i, root) ==
    IF root = Document THEN TRUE
    ELSE IF d[i].parent = Document THEN FALSE
    ELSE d[i].parent = root \/ IsDescendant(d, d[i].parent, root)

\* the parent links of a document listed in document (pre-)order: the parent
\* of node i is the document, node i-1, or an ancestor of node i-1
TreeShapes ==
    { p \in [NodeIds -> 0 .. NumNodes] :
        \A i \in NodeIds :
            /\ p[i] < i
            /\ p[i] # Document =>
                  \/ p[i] = i - 1
                  \/ IsDescendant([j \in NodeIds |-> [parent |-> p[j]]], i - 1, p[i]) }

\* script elements hold no element children
Documents ==
    { d \in { [i \in NodeIds |->
                 [tag |-> k[i].tag, cls |-> k[i].cls, src |-> k[i].src,
                  parent |-> p[i]]] :
              k \in [NodeIds -> NodeKinds], p \in TreeShapes } :
        \A i \in NodeIds :
            d[i].parent # Document => d[d[i].parent].tag # "script" }

----------------------------------------------------------------------------
(* Selectors *)

ClassSelector(c) == [kind |-> "class", tag |-> "*", v |-> c]
TagSelector(t) == [kind |-> "tag", tag |-> t, v |-> ""]

\* the template string `script[src="${url}"]`
ScriptSrcSelector(url) == [kind |-> "attr", tag |-> "script", v |-> url]

Selectors ==
    { ClassSelector("x"), TagSelector("span"), ScriptSrcSelector(ModuleUrl) }

\* element n matches the selector
Matches(n, sel) ==
    CASE sel.kind = "class" -> n.cls = sel.v
      [] sel.kind = "tag"   -> n.tag = sel.tag
      [] sel.kind = "attr"  -> n.tag = sel.tag /\ n.src = sel.v

\* (a query that forgets the parent, as document.querySelectorAll would)
ScopeIgnoringParent(parent) == Document

\* `parent || document`
Scope(parent) == IF parent = NoParent THEN Document ELSE parent

\* scope.querySelectorAll(selector): the matching descendants, document order
QuerySelectorAll(d, scope, sel) ==
    LET InScope(i) == IsDescendant(d, i, scope) /\ Matches(d[i], sel)
    IN  SelectSeq([i \in NodeIds |-> i], InScope)

\* scope.querySelector(selector): the first of them, or null (0)
QuerySelector(d, scope, sel) ==
    LET all == QuerySelectorAll(d, scope, sel)
    IN  IF all = <<>> THEN 0 ELSE Head(all)

----------------------------------------------------------------------------
(* The finders *)

LogLevels == {"debug", "error", "false", Undefined}
Parents == {NoParent} \cup NodeIds

\* (a changed default, as a slip in the parameter list would make it)
DefaultLogAsError(log) == IF log = Undefined THEN "error" ELSE log

\* the default of the destructured parameter: log = "debug"
DefaultLog(log) == IF log = Undefined THEN "debug" ELSE log

ToUpperCase(s) ==
    CASE s = "debug" -> "DEBUG"
      [] s = "error" -> "ERROR"

Where(parent) ==
    IF parent # NoParent THEN "the specified parent element:" ELSE "the document."

Null == [kind |-> "null", node |-> 0, nodes |-> <<>>]
Element(i) == [kind |-> "element", node |-> i, nodes |-> <<>>]
Array(s) == [kind |-> "array", node |-> 0, nodes |-> s]

\* one console call: the method, the message and the second argument
Diagnostic(what, sel, parent, log) ==
    [method |-> IF log = "debug" THEN "debug" ELSE "error",
     text   |-> <<ToUpperCase(log), what, sel, Where(parent)>>,
     arg    |-> parent]

\* getHtmlElement({selector, parent, log}): <<returned value, console calls>>
GetHtmlElement(d, selector, parent, logArg) ==
    LET log == DefaultLog(logArg)
        targetElement == QuerySelector(d, Scope(parent), selector)
    IN  IF targetElement = 0
        THEN IF log = "false"
             THEN <<Null, <<>>>>
             ELSE <<Null,
                    <<Diagnostic("Element with selector", selector, parent, log)>>>>
        ELSE <<Element(targetElement), <<>>>>

\* (getMultipleHtmlElements without the `log === false` return)
GetMultipleHtmlElementsLoud(d, selector, parent, logArg) ==
    LET log == DefaultLog(logArg)
        targetElements == QuerySelectorAll(d, Scope(parent), selector)
    IN  IF Len(targetElements) = 0
        THEN <<Null,
               <<Diagnostic("No elements found with selector", selector, parent,
                            IF log = "false" THEN "error" ELSE log)>>>>
        ELSE <<Array(targetElements), <<>>>>

\* (getMultipleHtmlElements without the `length === 0` branch)
GetMultipleHtmlElementsUnchecked(d, selector, parent, logArg) ==
    <<Array(QuerySelectorAll(d, Scope(parent), selector)), <<>>>>

\* getMultipleHtmlElements({selector, parent, log})
GetMultipleHtmlElements(d, selector, parent, logArg) ==
    LET log == DefaultLog(logArg)
        targetElements == QuerySelectorAll(d, Scope(parent), selector)
    IN  IF Len(targetElements) = 0
        THEN IF log = "false"
             THEN <<Null, <<>>>>
             ELSE <<Null,
                    <<Diagnostic("No elements found with selector", selector,
                                 parent, log)>>>>
        ELSE <<Array(targetElements), <<>>>>

\* (getActiveScript passing log: false)
GetActiveScriptSilenced(d) ==
    GetHtmlElement(d, ScriptSrcSelector(ModuleUrl), NoParent, "false")

\* getActiveScript(): getHtmlElement({ selector: `script[src="${url}"]` })
GetActiveScript(d) ==
    GetHtmlElement(d, ScriptSrcSelector(ModuleUrl), NoParent, Undefined)

NoCall == [fn |-> "none", selector |-> ClassSelector(""), parent |-> NoParent,
           log |-> Undefined]

CallGetHtmlElement ==
    \E selector \in Selectors, parent \in Parents, log \in LogLevels :
        LET r == GetHtmlElement(dom, selector, parent, log)
        IN  /\ call' = [fn |-> "getHtmlElement", selector |-> selector,
                        parent |-> parent, log |-> log]
            /\ result' = r[1]
            /\ console' = r[2]
            /\ UNCHANGED <<dom, styleVars>>

CallGetMultipleHtmlElements ==
    \E selector \in Selectors, parent \in Parents, log \in LogLevels :
        LET r == GetMultipleHtmlElements(dom, selector, parent, log)
        IN  /\ call' = [fn |-> "getMultipleHtmlElements", selector |-> selector,
                        parent |-> parent, log |-> log]
            /\ result' = r[1]
            /\ console' = r[2]
            /\ UNCHANGED <<dom, styleVars>>

CallGetActiveScript ==
    LET r == GetActiveScript(dom)
    IN  /\ call' = [fn |-> "getActiveScript",
                    selector |-> ScriptSrcSelector(ModuleUrl),
                    parent |-> NoParent, log |-> Undefined]
        /\ result' = r[1]
        /\ console' = r[2]
        /\ UNCHANGED <<dom, styleVars>>

----------------------------------------------------------------------------
(* Inline style: the host's CSSStyleDeclaration                             *)
(*                                                                         *)
(* A declaration block maps each property to its value, or to Absent.      *)
(* Values are valid and already in serialized form, so what is set is what *)
(* is read back; the properties are a longhand and a custom property (no   *)
(* shorthand, whose setting would spread over its longhands).              *)
(* getPropertyValue and setProperty take property names: a custom property *)
(* as written, any other name ASCII-lowercased, and setProperty ignores a  *)
(* name that is no property.  Assignment style[key] = v goes through the   *)
(* camel-cased and dashed attributes of the style object; a key that is no *)
(* attribute of it (a custom property name) becomes an own JS property of  *)
(* the object and leaves the declarations alone.                           *)

\* the elements whose style the model follows
Elements == {"target", "other"}

\* the CSS properties the model follows: a longhand and a custom property
Props == {"background-color", "--x"}

\* the spellings a StyleMap key comes in: kebab-case, camelCase, custom
Keys == {"background-color", "backgroundColor", "--x"}

\* a property with no inline declaration
Absent == "<absent>"

\* the JS null
JsNull == "<null>"

\* values setStyle is asked to set ("" is the clearing value)
RequestValues == {"", "red"}

\* values other code sets ("" removes)
OtherValues == {"", "blue"}

IsCustomProperty(key) == key = "--x"

\* ASCII lowercase of a property name
ToAsciiLowerCase(key) ==
    IF key = "backgroundColor" THEN "backgroundcolor" ELSE key

\* the property a name given to getPropertyValue / setProperty stands for
PropertyOfName(name) ==
    IF IsCustomProperty(name) THEN name ELSE ToAsciiLowerCase(name)

\* the property behind an IDL attribute of the style object (camel-cased and
\* dashed attributes), or Absent when the key is no attribute of it
PropertyOfAttribute(key) ==
    CASE key = "backgroundColor"  -> "background-color"
      [] key = "background-color" -> "background-color"
      [] OTHER                    -> Absent

\* style.getPropertyValue(name)
GetPropertyValue(decl, name) ==
    LET property == PropertyOfName(name)
    IN  IF property \in Props /\ decl[property] # Absent
        THEN decl[property]
        ELSE ""

\* style.setProperty(name, value), value being [LegacyNullToEmptyString]
SetProperty(decl, name, valueArg) ==
    LET property == PropertyOfName(name)
        value == IF valueArg = JsNull THEN "" ELSE valueArg
    IN  IF property \notin Props THEN decl
        ELSE IF value = "" THEN [decl EXCEPT ![property] = Absent]
        ELSE [decl EXCEPT ![property] = value]

\* style[key] = value: <<declarations, expando>> afterwards
SetAttribute(decl, exp, key, value) ==
    IF PropertyOfAttribute(key) # Absent
    THEN <<SetProperty(decl, PropertyOfAttribute(key), value), exp>>
    ELSE <<decl, value>>

\* Object.assign(element.style, prevValues): style[key] = prevValues[key], in
\* key order
RECURSIVE ObjectAssign(_, _, _)
ObjectAssign(decl, exp, source) ==
    IF source = <<>> THEN <<decl, exp>>
    ELSE LET r == SetAttribute(decl, exp, Head(source).key, Head(source).value)
         IN  ObjectAssign(r[1], r[2], Tail(source))

----------------------------------------------------------------------------
(* setStyle *)

\* `styles[key] || null` and `styles[key] || ""`
OrNull(v) == IF v = "" THEN JsNull ELSE v
OrEmpty(v) == IF v = "" THEN "" ELSE v

\* the property a StyleMap key names, whatever its spelling
PropertyOfKey(key) ==
    IF key = "backgroundColor" THEN "background-color" ELSE key

Variants == {"record", "cssProperties"}

\* the keys the parameter type of a variant admits: any string for
\* Record<string, string>, the camelCase names for csstype's Properties
KeysOf(variant) ==
    IF variant = "record" THEN Keys ELSE {"backgroundColor"}

\* the StyleMaps of a variant: up to MaxKeys keys in insertion order, no two
\* of them spellings of one property
StyleMaps(variant) ==
    { m \in UNION { [1 .. n -> [key : KeysOf(variant), value : RequestValues]] :
                    n \in 0 .. MaxKeys } :
        \A i, j \in 1 .. Len(m) :
            i # j => PropertyOfKey(m[i].key) # PropertyOfKey(m[j].key) }

\* the loop of the string-keyed variant: [decl, exp, prev] after it
RECURSIVE SetStyleRecord(_, _, _, _)
SetStyleRecord(decl, exp, styles, prevValues) ==
    IF styles = <<>> THEN [decl |-> decl, exp |-> exp, prev |-> prevValues]
    ELSE LET key == Head(styles).key
             prev == Append(prevValues,
                            [key |-> key, value |-> GetPropertyValue(decl, key)])
         IN  SetStyleRecord(SetProperty(decl, key, OrNull(Head(styles).value)),
                            exp, Tail(styles), prev)

\* the loop of the CSSProperties-keyed variant
RECURSIVE SetStyleCSSProperties(_, _, _, _)
SetStyleCSSProperties(decl, exp, styles, prevValues) ==
    IF styles = <<>> THEN [decl |-> decl, exp |-> exp, prev |-> prevValues]
    ELSE LET key == Head(styles).key
             prev == Append(prevValues,
                            [key |-> key, value |-> GetPropertyValue(decl, key)])
             r == SetAttribute(decl, exp, key, OrEmpty(Head(styles).value))
         IN  SetStyleCSSProperties(r[1], r[2], Tail(styles), prev)

SetStyleOf(variant, decl, exp, styles) ==
    IF variant = "record"
    THEN SetStyleRecord(decl, exp, styles, <<>>)
    ELSE SetStyleCSSProperties(decl, exp, styles, <<>>)

NoStyle == [p \in Props |-> Absent]

\* (a revert that rewrites the whole inline style from the snapshot)
RevertOfWholeStyle(h, st, ex) ==
    ObjectAssign(NoStyle, ex[h.element], h.prevValues)

\* the closure setStyle returns: revert() on the state it is called in
RevertOf(h, st, ex) == ObjectAssign(st[h.element], ex[h.element], h.prevValues)

\* The record of the most recent style operation (a history variable):
\*   op, handle       the operation and the closure it made or invoked
\*   variant, styles  setStyle's variant and StyleMap
\*   before           the element's declarations right before that setStyle
\*                    (variant and before are kept through a revert that
\*                    directly follows it)
\*   direct           a revert that directly follows its own setStyle
\*   lifo, base       the stack discipline of the run so far: lifo = k >= 0
\*                    when the run is setStyle calls on one element, whose
\*                    handles above k were then invoked newest first, each
\*                    once, and nothing else wrote a style (-1 otherwise);
\*                    base is the element's declarations before the first
\*                    of those calls
NoOp == [op |-> "none", handle |-> 0, variant |-> "none", styles |-> <<>>,
         before |-> NoStyle, direct |-> FALSE, lifo |-> 0, base |-> NoStyle]

LifoAfterSetStyle(element) ==
    IF /\ last.lifo = Len(handles)
       /\ Len(handles) > 0 => handles[1].element = element
    THEN Len(handles) + 1
    ELSE -1
LifoAfterRevert(h) == IF last.lifo = h THEN h - 1 ELSE -1
BaseAfter(lifo, first) ==
    IF lifo = -1 THEN NoStyle ELSE IF lifo = 1 /\ last.lifo = 0 THEN first
    ELSE last.base

SetStyle(max) ==
    \E element \in Elements, variant \in Variants :
      \E styles \in StyleMaps(variant) :
        LET r == SetStyleOf(variant, style[element], expando[element], styles)
        IN  /\ Len(handles) < max
            /\ style' = [style EXCEPT ![element] = r.decl]
            /\ expando' = [expando EXCEPT ![element] = r.exp]
            /\ handles' = Append(handles,
                                 [element |-> element, prevValues |-> r.prev])
            /\ last' = [op |-> "setStyle", handle |-> Len(handles) + 1,
                        variant |-> variant, styles |-> styles,
                        before |-> style[element], direct |-> FALSE,
                        lifo |-> LifoAfterSetStyle(element),
                        base |-> BaseAfter(LifoAfterSetStyle(element),
                                           style[element])]
            /\ UNCHANGED findVars

Revert ==
    \E h \in 1 .. Len(handles) :
        LET r == RevertOf(handles[h], style, expando)
            element == handles[h].element
        IN  /\ style' = [style EXCEPT ![element] = r[1]]
            /\ expando' = [expando EXCEPT ![element] = r[2]]
            /\ last' = [op |-> "revert", handle |-> h,
                        variant |-> IF last.op = "setStyle" /\ last.handle = h
                                    THEN last.variant ELSE NoOp.variant,
                        styles |-> NoOp.styles,
                        before |-> IF last.op = "setStyle" /\ last.handle = h
                                   THEN last.before ELSE NoStyle,
                        direct |-> last.op = "setStyle" /\ last.handle = h,
                        lifo |-> LifoAfterRevert(h),
                        base |-> BaseAfter(LifoAfterRevert(h), NoStyle)]
            /\ UNCHANGED <<findVars, handles>>

\* other code writes one inline property of one element
OtherWrite ==
    \E element \in Elements, property \in Props, value \in OtherValues :
        /\ style' = [style EXCEPT
                       ![element] = SetProperty(style[element], property, value)]
        /\ last' = [NoOp EXCEPT !.op = "write", !.lifo = -1]
        /\ UNCHANGED <<findVars, expando, handles>>

----------------------------------------------------------------------------
(* Specifications *)

InitStyleVars ==
    /\ style \in [Elements -> [Props -> {Absent, "blue"}]]
    /\ expando = [e \in Elements |-> Absent]
    /\ handles = <<>>
    /\ last = NoOp

InitFindVars ==
    /\ call = NoCall
    /\ result = Null
    /\ console = <<>>

\* the finders on every document of the bound
InitFind ==
    /\ dom \in Documents
    /\ InitFindVars
    /\ style = [e \in Elements |-> NoStyle]
    /\ expando = [e \in Elements |-> Absent]
    /\ handles = <<>>
    /\ last = NoOp

NextFind ==
    \/ CallGetHtmlElement
    \/ CallGetMultipleHtmlElements
    \/ CallGetActiveScript

SpecFind == InitFind /\ [][NextFind]_vars

\* setStyle, revert and other writers on two elements
InitStyle ==
    /\ dom = CHOOSE d \in Documents : TRUE
    /\ InitFindVars
    /\ InitStyleVars

NextStyle ==
    \/ SetStyle(MaxPatches)
    \/ Revert
    \/ OtherWrite

SpecStyle == InitStyle /\ [][NextStyle]_vars

\* stacked patches with no other writer
NextStack ==
    \/ SetStyle(MaxStack)
    \/ Revert

SpecStack == InitStyle /\ [][NextStack]_vars

----------------------------------------------------------------------------
(* What the claims speak of *)

\* the nodes that match the call's selector in its scope: under the parent
\* when one is given, anywhere in the document otherwise
MatchesInScope ==
    { i \in NodeIds :
        /\ call.parent # NoParent => IsDescendant(dom, i, call.parent)
        /\ Matches(dom[i], call.selector) }

\* the log level in force: "debug" when none is given
LevelInForce == IF call.log = Undefined THEN "debug" ELSE call.log

\* the script elements whose src is exactly the module's URL
ActiveScripts ==
    { i \in NodeIds : dom[i].tag = "script" /\ dom[i].src = ModuleUrl }

\* the properties the keys of a StyleMap (or of a snapshot of it) name
NamedProps(m) == { PropertyOfKey(m[i].key) : i \in 1 .. Len(m) }

\* the closure the most recent style operation made or invoked
LastHandle == handles[last.handle]

\* the inline declaration that holds a captured value ("" is no declaration)
Declared(value) == IF value = "" THEN Absent ELSE value

----------------------------------------------------------------------------
(* The finders *)

\* C2: when the selector matches no node of the scope, getHtmlElement
\* returns null, and at log "debug" / "error" (log absent: "debug") it makes
\* exactly one console call, through console.debug / console.error.
NotFoundReturnsNullAndLogsOnce ==
    (call.fn = "getHtmlElement" /\ MatchesInScope = {}) =>
        /\ result = Null
        /\ LevelInForce \in {"debug", "error"} =>
              /\ Len(console) = 1
              /\ console[1].method = LevelInForce

NotFoundLoggedAtError ==
    /\ call.fn = "getHtmlElement"
    /\ MatchesInScope = {}
    /\ call.log = "error"
    /\ call.parent # NoParent
    /\ \E i \in NodeIds : Matches(dom[i], call.selector)
    /\ Len(console) = 1

\* C3: with log = false neither finder makes a console call, match or no
\* match; and a call that finds a match makes none at any log level.
SilentWhenDisabledOrFound ==
    call.fn \in {"getHtmlElement", "getMultipleHtmlElements"} =>
        /\ call.log = "false" => console = <<>>
        /\ MatchesInScope # {} => console = <<>>

SilentNotFound ==
    /\ call.fn = "getMultipleHtmlElements"
    /\ call.log = "false"
    /\ MatchesInScope = {}
    /\ result = Null
    /\ console = <<>>

\* C4: when at least one node of the scope matches, getMultipleHtmlElements
\* returns a sequence (never null) that holds exactly the matching nodes of
\* the scope, each once, in document order.
FoundReturnsAllInDocumentOrder ==
    (call.fn = "getMultipleHtmlElements" /\ MatchesInScope # {}) =>
        /\ result.kind = "array"
        /\ { result.nodes[k] : k \in 1 .. Len(result.nodes) } = MatchesInScope
        /\ \A k \in 1 .. Len(result.nodes) - 1 :
              result.nodes[k] < result.nodes[k + 1]

ScopedMatchFound ==
    /\ call.fn = "getMultipleHtmlElements"
    /\ call.parent # NoParent
    /\ MatchesInScope # {}
    /\ Matches(dom[call.parent], call.selector)
    /\ result.kind = "array"

\* C5: when no node of the scope matches, getMultipleHtmlElements returns
\* null, not an empty sequence, at every log level; a returned sequence is
\* never empty.
NotFoundIsNullNeverEmpty ==
    call.fn = "getMultipleHtmlElements" =>
        /\ MatchesInScope = {} => result = Null
        /\ result.kind = "array" => result.nodes # <<>>

MultipleNotFound ==
    /\ call.fn = "getMultipleHtmlElements"
    /\ MatchesInScope = {}
    /\ call.log = "debug"
    /\ result = Null
    /\ Len(console) = 1

\* C6 as stated: getActiveScript returns the first script element whose src
\* is exactly the module's URL, or null, and when there is none it returns
\* null and makes no console call.
ActiveScriptSilent ==
    call.fn = "getActiveScript" =>
        /\ ActiveScripts # {} =>
              /\ result.kind = "element"
              /\ result.node \in ActiveScripts
              /\ \A i \in ActiveScripts : result.node <= i
        /\ ActiveScripts = {} => result = Null /\ console = <<>>

\* C6 as amended: getActiveScript returns the first script element whose
\* src is exactly the module's URL, making no console call, and when there
\* is none it returns null and makes exactly one console.debug call (the
\* delegate's default level).
ActiveScriptLogsAtDebug ==
    call.fn = "getActiveScript" =>
        /\ ActiveScripts # {} =>
              /\ result.kind = "element"
              /\ result.node \in ActiveScripts
              /\ \A i \in ActiveScripts : result.node <= i
              /\ console = <<>>
        /\ ActiveScripts = {} =>
              /\ result = Null
              /\ Len(console) = 1
              /\ console[1].method = "debug"
              /\ console[1].arg = NoParent

ActiveScriptNotFound ==
    /\ call.fn = "getActiveScript"
    /\ ActiveScripts = {}
    /\ \E i \in NodeIds : dom[i].tag = "script" /\ dom[i].src = OtherUrl
    /\ \E i \in NodeIds : dom[i].tag # "script" /\ dom[i].src = ModuleUrl
    /\ result = Null

----------------------------------------------------------------------------
(* setStyle *)

\* C1: setStyle followed by its revert() leaves every property the StyleMap
\* names with the inline value it had before setStyle (absent when it was
\* absent), in both variants and for every key spelling.
RevertRestoresPrePatchValues ==
    (last.op = "revert" /\ last.direct) =>
        \A p \in NamedProps(LastHandle.prevValues) :
            style[LastHandle.element][p] = last.before[p]

\* C7: after setStyle returns, every property whose requested value is the
\* empty string is absent, and every property whose requested value is
\* non-empty holds exactly that value, in both variants.
SetStyleSetsOrClears ==
    last.op = "setStyle" =>
        \A i \in 1 .. Len(last.styles) :
            style[LastHandle.element][PropertyOfKey(last.styles[i].key)]
                = Declared(last.styles[i].value)

RevertReassignsSnapshot ==
    last.op = "revert" =>
        /\ \A i \in 1 .. Len(LastHandle.prevValues) :
              style[LastHandle.element][PropertyOfKey(LastHandle.prevValues[i].key)]
                  = Declared(LastHandle.prevValues[i].value)
        /\ RevertOf(LastHandle, style, expando)
              = <<style[LastHandle.element], expando[LastHandle.element]>>

\* C10: for setStyle calls P1 .. Pn (n >= 2) on one element with no other
\* writer, the revert() of Pn invoked right after Pn restores what Pn named
\* to its value before Pn, and all handles invoked newest first restore
\* every named property to its value before P1.
StackedRevertsRestore ==
    (Len(handles) >= 2 /\ last.lifo >= 0) =>
        /\ (last.op = "revert" /\ last.direct) =>
              \A p \in NamedProps(LastHandle.prevValues) :
                  style[LastHandle.element][p] = last.before[p]
        /\ last.lifo = 0 =>
              \A h \in 1 .. Len(handles) :
                  \A p \in NamedProps(handles[h].prevValues) :
                      style[handles[h].element][p] = last.base[p]

====
